---------------------------- MODULE Spec2Model ----------------------------
(***************************************************************************)
(* FFGMixin (bnn/nn/mixins/variational/ffg.py): a fully factorized         *)
(* Gaussian over the .weight and .bias attributes of a deterministic layer.*)
(*                                                                         *)
(* The parameters (means, standard deviations, priors, inputs) are         *)
(* fixed-point integers in units of 1e-6 (Scale), so that the clamp floor  *)
(* 1e-5 is 10; raw scale parameters (the arguments of softplus) are in     *)
(* units of 1e-3.  The outputs of the base layer, on which the             *)
(* stabilization of line 147 acts, are float32 values with IEEE 754        *)
(* round-to-nearest-even addition: a float32 is represented by its         *)
(* ordinal, the integer its bit pattern spells, negated for a negative     *)
(* value, so that the order of the ordinals is the order of the values.    *)
(* A tensor is a non-empty tuple of numbers; Python's None is the empty    *)
(* tuple.                                                                  *)
(***************************************************************************)
EXTENDS Integers, Sequences, FiniteSets, TLC

VARIABLES
    has_bias, local_reparameterization, max_sd,
    weight_mean, _weight_sd, bias_mean, _bias_sd,
    prior_weight_mean, prior_weight_sd, prior_bias_mean, prior_bias_sd,
    weight, bias,
    weight_alias, bias_alias,
    weight_src, bias_src,
    pc, call, x, eps, output_mean, output_var, delegations,
    ncalls, overlapped, foreign_read, own_read, kl, exc, last

vars == << has_bias, local_reparameterization, max_sd,
           weight_mean, _weight_sd, bias_mean, _bias_sd,
           prior_weight_mean, prior_weight_sd, prior_bias_mean, prior_bias_sd,
           weight, bias, weight_alias, bias_alias, weight_src, bias_src,
           pc, call, x, eps, output_mean, output_var, delegations,
           ncalls, overlapped, foreign_read, own_read, kl, exc, last >>

-----------------------------------------------------------------------------
(* Bounds of the model *)

\* forward calls made on the instance in one behaviour
MaxCalls == 2
\* threads that may call forward on the instance
NThreads == 2
\* elements of the weight of one output unit (the product of weight.shape[1:])
InDim == 2

Threads == 1..NThreads

-----------------------------------------------------------------------------
(* Fixed-point arithmetic *)

Scale == 1000 * 1000

SD_FLOOR == 10

None == << >>

Abs(a) == IF a < 0 THEN -a ELSE a

Sgn(a) == IF a < 0 THEN -1 ELSE IF a = 0 THEN 0 ELSE 1

Min2(a, b) == IF a < b THEN a ELSE b

Max2(a, b) == IF a > b THEN a ELSE b

\* a * b of two fixed-point numbers, truncated towards zero; the product is
\* formed from the 1e-3 parts so that it stays inside TLC's integers
FixMul(a, b) ==
    LET p == Abs(a)
        q == Abs(b)
        ph == p \div 1000
        pl == p % 1000
        qh == q \div 1000
        ql == q % 1000
    IN Sgn(a) * Sgn(b) *
         (ph * qh + (ph * ql + pl * qh) \div 1000 + (pl * ql) \div Scale)

\* a / b of two fixed-point numbers (b > 0), by long division in base 1000
FixDiv(a, b) ==
    LET p == Abs(a)
        q0 == p \div b
        r0 == p % b
        q1 == (r0 * 1000) \div b
        r1 == (r0 * 1000) % b
        q2 == (r1 * 1000) \div b
    IN Sgn(a) * (q0 * Scale + q1 * 1000 + q2)

RECURSIVE SqrtSearch(_, _, _)
SqrtSearch(n, lo, hi) ==
    IF lo >= hi THEN lo
    ELSE LET mid == (lo + hi + 1) \div 2
         IN IF mid * mid <= n THEN SqrtSearch(n, mid, hi)
            ELSE SqrtSearch(n, lo, mid - 1)

\* the integer square root of n >= 0
ISqrt(n) == SqrtSearch(n, 0, 46340)

\* sqrt of a fixed-point number v >= 0
FixSqrt(v) ==
    IF v <= 2000 THEN ISqrt(v * Scale) ELSE 1000 * ISqrt(v)

\* ln of a fixed-point number v > 0: v = m * 2^k with m in [1, 2), and
\* ln m = 2 atanh((m - 1) / (m + 1)) by its series
RECURSIVE LnNorm(_, _)
LnNorm(v, k) ==
    IF v < Scale THEN LnNorm(2 * v, k - 1)
    ELSE IF v >= 2 * Scale THEN LnNorm(v \div 2, k + 1)
    ELSE << v, k >>

FixLn(v) ==
    LET mk == LnNorm(v, 0)
        z  == FixDiv((mk[1] - Scale) \div 2, (mk[1] + Scale) \div 2)
        z2 == FixMul(z, z)
        z3 == FixMul(z, z2)
        z5 == FixMul(z3, z2)
        z7 == FixMul(z5, z2)
    IN mk[2] * 693147 + 2 * (z + z3 \div 3 + z5 \div 5 + z7 \div 7)

-----------------------------------------------------------------------------
(* float32 *)

\* EPS = 1e-6 as a float32 (0x358637BD)
EPS == 897988541

\* 1.0 as a float32 (0x3F800000)
F32_ONE == 1065353216

RECURSIVE TwoTo(_)
TwoTo(k) == IF k = 0 THEN 1 ELSE 2 * TwoTo(k - 1)

RECURSIVE BitLen(_)
BitLen(n) == IF n = 0 THEN 0 ELSE 1 + BitLen(n \div 2)

\* the mantissa and the exponent of a float32: |value| = mantissa * 2^exponent
\* (8388608 = 2^23: the 23 low bits are the fraction, the next 8 the exponent)
F32Mant(o) ==
    LET b == Abs(o)
    IN IF b \div 8388608 = 0 THEN b % 8388608 ELSE 8388608 + (b % 8388608)

F32Exp(o) ==
    LET b == Abs(o)
    IN IF b \div 8388608 = 0 THEN -149 ELSE b \div 8388608 - 150

\* the float32 m * 2^e, m < 2^24
RECURSIVE F32Encode(_, _)
F32Encode(m, e) ==
    IF m = 0 THEN 0
    ELSE IF m < 8388608 /\ e > -149 THEN F32Encode(2 * m, e - 1)
    ELSE IF m < 8388608 THEN m
    ELSE (e + 150) * 8388608 + (m - 8388608)

\* (n + f) * 2^e, with f in (0, 1) when sticky and f = 0 otherwise, rounded
\* to the nearest float32, ties to even
F32Round(n, sticky, e) ==
    LET k == BitLen(n) - 24
    IN IF k <= 0 THEN F32Encode(n, e)
       ELSE LET q == n \div TwoTo(k)
                rem == n % TwoTo(k)
                half == TwoTo(k - 1)
                up == rem > half \/ (rem = half /\ (sticky \/ (q % 2) = 1))
                r == IF up THEN q + 1 ELSE q
            IN IF r = 2 * 8388608 THEN F32Encode(8388608, e + k + 1)
               ELSE F32Encode(r, e + k)

\* a + b of two float32: the operand of the smaller exponent is aligned to
\* three guard bits below the other, the bits shifted out are kept as sticky
FAdd(a, b) ==
    IF a = 0 THEN b
    ELSE IF b = 0 THEN a
    ELSE LET hi == IF F32Exp(a) >= F32Exp(b) THEN a ELSE b
             lo == IF F32Exp(a) >= F32Exp(b) THEN b ELSE a
             d  == F32Exp(hi) - F32Exp(lo)
         IN IF d >= 27 THEN hi
            ELSE LET g == IF d < 3 THEN d ELSE 3
                     M1 == F32Mant(hi) * TwoTo(g)
                     sh == TwoTo(d - g)
                     M2 == F32Mant(lo) \div sh
                     st == (F32Mant(lo) % sh) # 0
                     same == Sgn(hi) = Sgn(lo)
                     I == IF same THEN M1 + M2
                          ELSE IF st THEN Abs(M1 - M2) - 1 ELSE Abs(M1 - M2)
                     s == IF same \/ M1 >= M2 THEN Sgn(hi) ELSE Sgn(lo)
                 IN s * F32Round(I, st, F32Exp(hi) - g)

\* a * m of a float32 a and a mask m, which is 0.0 or 1.0
FMulMask(a, m) == IF m = 0 THEN 0 ELSE a

-----------------------------------------------------------------------------
(* Tensors *)

Fill(n, v) == [i \in 1..n |-> v]

Ramp(n, v) == [i \in 1..n |-> v * i]

\* torch.full_like(t, v)
FullLike(t, v) == [i \in DOMAIN t |-> v]

\* t.pow(2)
Pow2(t) == [i \in DOMAIN t |-> FixMul(t[i], t[i])]

RECURSIVE SumT(_)
SumT(t) == IF t = << >> THEN 0 ELSE Head(t) + SumT(Tail(t))

\* _normal_sample(mean, sd), with the draw of torch.randn_like(mean) given
_normal_sample(mean, sd, noise) ==
    [i \in DOMAIN mean |-> mean[i] + FixMul(noise[i], sd[i])]

-----------------------------------------------------------------------------
(* Inputs *)

\* the weight and bias of the deterministic layer the mixin is built over
BaseWeight == Ramp(InDim, 250000)

BaseBiases == { None, << 100000 >> }

\* max_sd: None, or a 1-tuple holding the ceiling
MaxSdVals == { None, << 0 >>, << 5 >>, << 500000 >> }

\* init_sd
InitSdVals == { 100 }

\* raw scale values (units of 1e-3) an optimizer may leave in _weight_sd
RawVals == { -200000, 0, 1000 }

\* the param_dict arguments of init_from_deterministic_params
ParamDicts ==
    { [weight |-> w, bias |-> b] :
        w \in { Fill(InDim, -500000), Ramp(InDim, 125000) }, b \in { None, << -300000 >> } }

\* the inputs of forward
XVals == { Ramp(InDim, -1000), Fill(InDim, 3000) }

\* the float32 values the base layer's forward may return at an output
\* position: -32.0, -1e-7, 0.0 and 4.0
OutVals == { -1107296256, -869711765, 0, 1082130432 }

OutTensors == { << v >> : v \in OutVals }

\* the draws of torch.randn_like
EpsVals == { -1000000, 500000 }

NoiseLike(t) == { FullLike(t, e) : e \in EpsVals }

-----------------------------------------------------------------------------
(* Effective standard deviations *)

\* F.softplus at the raw values of the model, to 1e-6: ln(1 + exp(r));
\* exp(-200) underflows, so softplus(-200) is exactly 0
softplus(r) ==
    CASE r = -200000 -> 0
      [] r = -9210   -> 100
      [] r = 0       -> 693147
      [] r = 1000    -> 1313262

\* math.log(math.expm1(init_sd)), in units of 1e-3
log_expm1(sd) ==
    CASE sd = 100 -> -9210

\* faulty variant of clamp: the floor is not applied
clamp_no_floor(v, lo, hi) ==
    IF hi = None THEN v ELSE Min2(v, hi[1])

\* Tensor.clamp(lo, hi): min(max(v, lo), hi); hi = None is no ceiling
clamp(v, lo, hi) ==
    IF hi = None THEN Max2(v, lo) ELSE Min2(Max2(v, lo), hi[1])

weight_sd ==
    [i \in DOMAIN _weight_sd |-> clamp(softplus(_weight_sd[i]), SD_FLOOR, max_sd)]

\* faulty variant of bias_sd: zeros instead of None on a layer without bias
bias_sd_zero_filled ==
    IF has_bias
    THEN [i \in DOMAIN _bias_sd |-> clamp(softplus(_bias_sd[i]), SD_FLOOR, max_sd)]
    ELSE << 0 >>

bias_sd ==
    IF has_bias
    THEN [i \in DOMAIN _bias_sd |-> clamp(softplus(_bias_sd[i]), SD_FLOOR, max_sd)]
    ELSE None

weight_dist == [loc |-> weight_mean, scale |-> weight_sd]

bias_dist ==
    IF has_bias THEN [loc |-> bias_mean, scale |-> bias_sd] ELSE None

prior_weight_dist == [loc |-> prior_weight_mean, scale |-> prior_weight_sd]

prior_bias_dist ==
    IF has_bias THEN [loc |-> prior_bias_mean, scale |-> prior_bias_sd] ELSE None

-----------------------------------------------------------------------------
(* Construction *)

NoArg == [weight |-> None, bias |-> None]

\* the provenance of a slot's value: which assignment of which forward call
\* wrote it (call 0 is the constructor)
Src(kind, c) == [kind |-> kind, call |-> c]

\* prior_sd / input_dim ** 0.5 when sqrt_width_scaling, with
\* input_dim = _prod(weight_mean.shape[1:]) + int(has_bias)
WidthScaled(sd, sqrt_width_scaling, hb) ==
    IF sqrt_width_scaling
    THEN FixDiv(sd, FixSqrt((InDim + (IF hb THEN 1 ELSE 0)) * Scale))
    ELSE sd

\* FFGMixin.__init__ over a base layer holding base_weight and base_bias
Construct(base_weight, base_bias, prior_mean, prior_weight_sd0, prior_bias_sd0, init_sd, msd, lr, nonlinearity_scale, sqrt_width_scaling) ==
    LET hb == base_bias # None
        _init_sd == log_expm1(init_sd)
        pw == FixMul(WidthScaled(prior_weight_sd0, sqrt_width_scaling, hb),
                     nonlinearity_scale)
        pb == WidthScaled(prior_bias_sd0, sqrt_width_scaling, hb)
    IN /\ has_bias = hb
       /\ local_reparameterization = lr
       /\ max_sd = msd
       /\ weight_mean = base_weight
       /\ _weight_sd = FullLike(base_weight, _init_sd)
       /\ bias_mean = IF hb THEN base_bias ELSE None
       /\ _bias_sd = IF hb THEN FullLike(base_bias, _init_sd) ELSE None
       \* self.weight = self.weight_mean.data: the slot shares the storage
       /\ weight = base_weight
       /\ weight_alias = TRUE
       /\ bias = IF hb THEN base_bias ELSE None
       /\ bias_alias = hb
       /\ weight_src = Src("mean", 0)
       /\ bias_src = Src("mean", 0)
       /\ prior_weight_mean = FullLike(base_weight, prior_mean)
       /\ prior_weight_sd = FullLike(base_weight, pw)
       /\ prior_bias_mean = IF hb THEN FullLike(base_bias, prior_mean) ELSE None
       /\ prior_bias_sd = IF hb THEN FullLike(base_bias, pb) ELSE None

\* no forward call has been made
NoCalls ==
    /\ pc = [t \in Threads |-> "idle"]
    /\ call = [t \in Threads |-> 0]
    /\ x = [t \in Threads |-> None]
    /\ eps = [t \in Threads |-> NoArg]
    /\ output_mean = [t \in Threads |-> None]
    /\ output_var = [t \in Threads |-> None]
    /\ delegations = [t \in Threads |-> << >>]
    /\ ncalls = 0
    /\ overlapped = FALSE
    /\ foreign_read = FALSE
    /\ own_read = FALSE
    /\ kl = None
    /\ exc = "None"
    /\ last = [op |-> "__init__", arg |-> NoArg]

\* a layer built with prior_mean = 0., prior_weight_sd = prior_bias_sd = 1.,
\* nonlinearity_scale = 1. (the defaults) over a base layer with or without
\* bias, for every max_sd, mode and sqrt_width_scaling
Init ==
    /\ \E base_bias \in BaseBiases, init_sd \in InitSdVals, msd \in MaxSdVals,
          lr \in BOOLEAN, sqrt_width_scaling \in BOOLEAN :
            Construct(BaseWeight, base_bias, 0, Scale, Scale, init_sd, msd, lr,
                      Scale, sqrt_width_scaling)
    /\ NoCalls

\* a layer built with the default arguments (max_sd = None,
\* sqrt_width_scaling = False) in either mode, with or without bias
InitDefault ==
    /\ \E base_bias \in BaseBiases, init_sd \in InitSdVals, lr \in BOOLEAN :
            Construct(BaseWeight, base_bias, 0, Scale, Scale, init_sd, None, lr,
                      Scale, FALSE)
    /\ NoCalls

config == << has_bias, local_reparameterization, max_sd >>

priors == << prior_weight_mean, prior_weight_sd, prior_bias_mean, prior_bias_sd >>

posterior == << weight_mean, _weight_sd, bias_mean, _bias_sd >>

slots == << weight, bias, weight_alias, bias_alias, weight_src, bias_src >>

locals == << pc, call, x, eps, output_mean, output_var, delegations >>

history == << ncalls, overlapped, foreign_read, own_read >>

AllIdle == \A t \in Threads : pc[t] = "idle"

-----------------------------------------------------------------------------
(* init_from_deterministic_params *)

\* faulty variant of init_from_deterministic_params: the raw scales are set
\* back to their initial value as well
init_resets_scale(param_dict) ==
    /\ weight_mean' = param_dict.weight
    /\ weight' = IF weight_alias THEN param_dict.weight ELSE weight
    /\ _weight_sd' = FullLike(_weight_sd, log_expm1(100))
    /\ IF param_dict.bias # None
       THEN IF bias_mean = None
            THEN /\ exc' = "AttributeError"
                 /\ UNCHANGED << bias_mean, bias >>
            ELSE /\ bias_mean' = param_dict.bias
                 /\ bias' = IF bias_alias THEN param_dict.bias ELSE bias
                 /\ exc' = "None"
       ELSE /\ exc' = "None"
            /\ UNCHANGED << bias_mean, bias >>
    /\ kl' = None
    /\ last' = [op |-> "init_from_deterministic_params", arg |-> param_dict]
    /\ UNCHANGED << config, priors, _bias_sd, weight_alias,
                    bias_alias, weight_src, bias_src, locals, history >>

\* self.weight_mean.data.copy_(weight.detach()), then, when the dict has a
\* bias, self.bias_mean.data.copy_(bias.detach()); bias_mean is None on a
\* layer without bias, and None.data raises AttributeError after the weight
\* has been copied.  copy_ writes in place: a slot that still shares the
\* storage of the mean shows the new value.
init_from_deterministic_params(param_dict) ==
    /\ weight_mean' = param_dict.weight
    /\ weight' = IF weight_alias THEN param_dict.weight ELSE weight
    /\ IF param_dict.bias # None
       THEN IF bias_mean = None
            THEN /\ exc' = "AttributeError"
                 /\ UNCHANGED << bias_mean, bias >>
            ELSE /\ bias_mean' = param_dict.bias
                 /\ bias' = IF bias_alias THEN param_dict.bias ELSE bias
                 /\ exc' = "None"
       ELSE /\ exc' = "None"
            /\ UNCHANGED << bias_mean, bias >>
    /\ kl' = None
    /\ last' = [op |-> "init_from_deterministic_params", arg |-> param_dict]
    /\ UNCHANGED << config, priors, _weight_sd, _bias_sd, weight_alias,
                    bias_alias, weight_src, bias_src, locals, history >>

\* an optimizer step on the registered parameters _weight_sd and _bias_sd
\* (in place, on the parameters' storage)
optimizer_step(r) ==
    /\ _weight_sd' = FullLike(_weight_sd, r)
    /\ _bias_sd' = IF has_bias THEN FullLike(_bias_sd, r) ELSE None
    /\ exc' = "None"
    /\ kl' = None
    /\ last' = [op |-> "optimizer_step", arg |-> NoArg]
    /\ UNCHANGED << config, priors, weight_mean, bias_mean, slots, locals,
                    history >>

-----------------------------------------------------------------------------
(* kl_divergence *)

\* dist.Normal validates its scale: every element must be positive
ValidNormal(d) == \A i \in DOMAIN d.scale : d.scale[i] > 0

\* dist.kl_divergence(q, p) of two Normals, elementwise:
\* ln(sp / sq) + (sq^2 + (mq - mp)^2) / (2 sp^2) - 1/2
KLNormal(q, p) ==
    [i \in DOMAIN q.loc |->
        LET var_ratio == FixDiv(q.scale[i], p.scale[i])
            t1 == FixDiv(q.loc[i] - p.loc[i], p.scale[i])
        IN (FixMul(var_ratio, var_ratio) + FixMul(t1, t1) - Scale) \div 2
             - (FixLn(q.scale[i]) - FixLn(p.scale[i]))]

\* the value kl_divergence returns, as a 0-dim tensor
KLValue ==
    << SumT(KLNormal(weight_dist, prior_weight_dist))
       + (IF has_bias THEN SumT(KLNormal(bias_dist, prior_bias_dist)) ELSE 0) >>

kl_divergence ==
    /\ IF ValidNormal(weight_dist) /\ (has_bias => ValidNormal(bias_dist))
       THEN /\ kl' = KLValue
            /\ exc' = "None"
       ELSE /\ kl' = None
            /\ exc' = "ValueError"
    /\ last' = [op |-> "kl_divergence", arg |-> NoArg]
    /\ UNCHANGED << config, priors, posterior, slots, locals, history >>

-----------------------------------------------------------------------------
(* forward: one action per statement of lines 141-154; pc[t] is the line   *)
(* thread t executes next                                                  *)

\* forward(x) is entered: line 138 selects the mode
Enter(t, input) ==
    /\ pc[t] = "idle"
    /\ ncalls < MaxCalls
    /\ ncalls' = ncalls + 1
    /\ call' = [call EXCEPT ![t] = ncalls + 1]
    /\ x' = [x EXCEPT ![t] = input]
    /\ pc' = [pc EXCEPT ![t] = IF local_reparameterization THEN "l141" ELSE "l152"]
    /\ overlapped' = (overlapped \/ \E u \in Threads : pc[u] # "idle")
    /\ kl' = None
    /\ exc' = "None"
    /\ last' = [op |-> "forward", arg |-> NoArg]
    /\ UNCHANGED << config, priors, posterior, slots, eps, output_mean,
                    output_var, delegations, foreign_read, own_read >>

\* self.weight = <value>: the slot is rebound to a new tensor
SetWeight(t, value, kind, next) ==
    /\ weight' = value
    /\ weight_alias' = FALSE
    /\ weight_src' = Src(kind, call[t])
    /\ pc' = [pc EXCEPT ![t] = next]
    /\ UNCHANGED << bias, bias_alias, bias_src >>

\* self.bias = <value>
SetBias(t, value, kind, next) ==
    /\ bias' = value
    /\ bias_alias' = FALSE
    /\ bias_src' = Src(kind, call[t])
    /\ pc' = [pc EXCEPT ![t] = next]
    /\ UNCHANGED << weight, weight_alias, weight_src >>

\* super().forward(input): the base layer reads the weight and bias slots as
\* they are now and returns a tensor y
Delegate(t, input, y) ==
    LET own == weight_src.call = call[t] /\ bias_src.call = call[t]
    IN /\ delegations' = [delegations EXCEPT ![t] =
              Append(@, [weight |-> weight, bias |-> bias, x |-> input,
                         out |-> y])]
       /\ foreign_read' = (foreign_read \/ ~own)
       /\ own_read' = (own_read \/ (own /\ ~overlapped))

\* faulty variant of line 141: the weight slot is not written, as if it
\* still held the mean
L141_no_write(t) ==
    /\ pc[t] = "l141"
    /\ pc' = [pc EXCEPT ![t] = "l142"]
    /\ UNCHANGED << config, priors, posterior, slots, call, x, eps, output_mean,
                    output_var, delegations, history, kl, exc, last >>

\* 141: self.weight = self.weight_mean.add(0)
L141(t) ==
    /\ pc[t] = "l141"
    /\ SetWeight(t, weight_mean, "mean", "l142")
    /\ UNCHANGED << config, priors, posterior, call, x, eps, output_mean,
                    output_var, delegations, history, kl, exc, last >>

\* 142: self.bias = self.bias_mean.add(0) if self.has_bias else None
L142(t) ==
    /\ pc[t] = "l142"
    /\ SetBias(t, IF has_bias THEN bias_mean ELSE None, "mean", "l143")
    /\ UNCHANGED << config, priors, posterior, call, x, eps, output_mean,
                    output_var, delegations, history, kl, exc, last >>

\* 143: output_mean = super().forward(x)
L143(t, Y) ==
    /\ pc[t] = "l143"
    /\ \E y \in Y :
          /\ Delegate(t, x[t], y)
          /\ output_mean' = [output_mean EXCEPT ![t] = y]
    /\ pc' = [pc EXCEPT ![t] = "l144"]
    /\ UNCHANGED << config, priors, posterior, slots, call, x, eps, output_var,
                    ncalls, overlapped, kl, exc, last >>

\* faulty variant of line 144: the standard deviation, not its square, is
\* put in the weight slot
L144_sd_not_squared(t) ==
    /\ pc[t] = "l144"
    /\ SetWeight(t, weight_sd, "var", "l145")
    /\ UNCHANGED << config, priors, posterior, call, x, eps, output_mean,
                    output_var, delegations, history, kl, exc, last >>

\* 144: self.weight = self.weight_sd.pow(2)
L144(t) ==
    /\ pc[t] = "l144"
    /\ SetWeight(t, Pow2(weight_sd), "var", "l145")
    /\ UNCHANGED << config, priors, posterior, call, x, eps, output_mean,
                    output_var, delegations, history, kl, exc, last >>

\* 145: self.bias = self.bias_sd.pow(2) if self.has_bias else None
L145(t) ==
    /\ pc[t] = "l145"
    /\ SetBias(t, IF has_bias THEN Pow2(bias_sd) ELSE None, "var", "l146")
    /\ UNCHANGED << config, priors, posterior, call, x, eps, output_mean,
                    output_var, delegations, history, kl, exc, last >>

\* 146: output_var = super().forward(x.pow(2))
L146(t, Y) ==
    /\ pc[t] = "l146"
    /\ \E y \in Y :
          /\ Delegate(t, Pow2(x[t]), y)
          /\ output_var' = [output_var EXCEPT ![t] = y]
    /\ pc' = [pc EXCEPT ![t] = "l147"]
    /\ UNCHANGED << config, priors, posterior, slots, call, x, eps, output_mean,
                    ncalls, overlapped, kl, exc, last >>

\* output_var.lt(0.).float()
Lt0(v) == IF v < 0 THEN F32_ONE ELSE 0

\* faulty variant of the stabilization: the mask is dropped and |v| is added
\* at every position
Stabilize_abs_everywhere(v) == FAdd(v, FAdd(Abs(v), EPS))

\* faulty variant of the stabilization: the negative part is subtracted, not
\* added back, which doubles the negative excursion
Stabilize_doubling(v) == FAdd(v, FAdd(-FMulMask(Abs(v), Lt0(v)), EPS))

\* output_var + (output_var.abs().mul(output_var.lt(0.).float()) + EPS)
Stabilize(v) == FAdd(v, FAdd(FMulMask(Abs(v), Lt0(v)), EPS))

\* 147: output_var += output_var.abs().mul(output_var.lt(0.).float()).detach() + EPS
L147(t) ==
    /\ pc[t] = "l147"
    /\ output_var' = [output_var EXCEPT ![t] =
                         [i \in DOMAIN @ |-> Stabilize(@[i])]]
    /\ pc' = [pc EXCEPT ![t] = "l148"]
    /\ UNCHANGED << config, priors, posterior, slots, call, x, eps, output_mean,
                    delegations, history, kl, exc, last >>

\* forward returns: the locals of the call are dropped.  The tensor returned
\* is handed to the caller and is no state of the instance.
Return(t) ==
    /\ pc' = [pc EXCEPT ![t] = "idle"]
    /\ call' = [call EXCEPT ![t] = 0]
    /\ x' = [x EXCEPT ![t] = None]
    /\ eps' = [eps EXCEPT ![t] = NoArg]
    /\ output_mean' = [output_mean EXCEPT ![t] = None]
    /\ output_var' = [output_var EXCEPT ![t] = None]
    /\ delegations' = [delegations EXCEPT ![t] = << >>]
    /\ UNCHANGED << kl, exc, last >>

\* 148: return _normal_sample(output_mean, output_var.sqrt())
L148(t) ==
    /\ pc[t] = "l148"
    /\ Return(t)
    /\ UNCHANGED << config, priors, posterior, slots, history >>

\* 152: self.weight = _normal_sample(self.weight_mean, self.weight_sd)
L152(t) ==
    /\ pc[t] = "l152"
    /\ \E noise \in NoiseLike(weight_mean) :
          /\ SetWeight(t, _normal_sample(weight_mean, weight_sd, noise),
                       "sample", "l153")
          /\ eps' = [eps EXCEPT ![t].weight = noise]
    /\ UNCHANGED << config, priors, posterior, call, x, output_mean,
                    output_var, delegations, history, kl, exc, last >>

\* 153: self.bias = _normal_sample(self.bias_mean, self.bias_sd) if self.has_bias else None
L153(t) ==
    /\ pc[t] = "l153"
    /\ IF has_bias
       THEN \E noise \in NoiseLike(bias_mean) :
               /\ SetBias(t, _normal_sample(bias_mean, bias_sd, noise),
                          "sample", "l154")
               /\ eps' = [eps EXCEPT ![t].bias = noise]
       ELSE /\ SetBias(t, None, "sample", "l154")
            /\ UNCHANGED eps
    /\ UNCHANGED << config, priors, posterior, call, x, output_mean,
                    output_var, delegations, history, kl, exc, last >>

\* 154: super().forward(x) is evaluated
L154(t, Y) ==
    /\ pc[t] = "l154"
    /\ \E y \in Y :
          /\ Delegate(t, x[t], y)
          /\ output_mean' = [output_mean EXCEPT ![t] = y]
    /\ pc' = [pc EXCEPT ![t] = "l154_return"]
    /\ UNCHANGED << config, priors, posterior, slots, call, x, eps, output_var,
                    ncalls, overlapped, kl, exc, last >>

\* 154: the value is returned
L154Return(t) ==
    /\ pc[t] = "l154_return"
    /\ Return(t)
    /\ UNCHANGED << config, priors, posterior, slots, history >>

\* one statement of the forward call thread t is in; Y are the tensors the
\* base layer's forward may return
Step(t, Y) ==
    \/ L141(t) \/ L142(t) \/ L143(t, Y) \/ L144(t) \/ L145(t) \/ L146(t, Y)
    \/ L147(t) \/ L148(t) \/ L152(t) \/ L153(t) \/ L154(t, Y) \/ L154Return(t)

\* forward(x), called while no other forward call is in progress
forward(t) == AllIdle /\ \E input \in XVals : Enter(t, input)

\* forward(x), called at any time
forward_concurrent(t) == \E input \in { Fill(InDim, 3000) } : Enter(t, input)

-----------------------------------------------------------------------------
(* Specifications *)

\* the instance used by one caller at a time: every call runs to completion
\* before the next operation starts
Next ==
    \/ \E t \in Threads : forward(t)
    \/ \E t \in Threads : Step(t, OutTensors)
    \/ AllIdle /\ \E pd \in ParamDicts : init_from_deterministic_params(pd)
    \/ AllIdle /\ \E r \in RawVals : optimizer_step(r)
    \/ AllIdle /\ kl_divergence

Spec == Init /\ [][Next]_vars

\* forward called from several threads with no lock: the statements of the
\* calls interleave.  What a delegation reads does not depend on the input or
\* on what the base layer returns, so one input and one output are drawn.
NextConcurrent ==
    \/ \E t \in Threads : forward_concurrent(t)
    \/ \E t \in Threads : Step(t, { << 1082130432 >> })

SpecConcurrent == InitDefault /\ [][NextConcurrent]_vars

-----------------------------------------------------------------------------
(* Claims *)

\* the raw value the second delegation of thread t's call returned
RawVar(t) == delegations[t][2].out

\* C1: between forward calls (after construction and after every completed
\* forward call, in either mode) the weight slot equals weight_mean and the
\* bias slot equals bias_mean when bias is present.
C1_SlotsHoldMeanBetweenCalls ==
    (AllIdle /\ last.op \in { "__init__", "forward" }) =>
        /\ weight = weight_mean
        /\ has_bias => bias = bias_mean

C3_SerializedReadsOwn == ~overlapped => ~foreign_read

\* with interleaved calls, after a delegation of a call that ran alone, the
\* mean pass of a call ran with the variance another call wrote in the slot
C3_Witness ==
    /\ own_read /\ foreign_read
    /\ \E t \in Threads :
          /\ local_reparameterization
          /\ Len(delegations[t]) >= 1
          /\ delegations[t][1].weight = Pow2(weight_sd)
          /\ delegations[t][1].weight # weight_mean

\* C4: init_from_deterministic_params sets weight_mean (and bias_mean, given a
\* bias, on a layer with bias) to the supplied values and leaves the raw
\* scales, weight_sd, bias_sd and the four prior buffers as they were.
C4_InitFrame ==
    [][ last'.op = "init_from_deterministic_params" =>
          /\ weight_mean' = last'.arg.weight
          /\ (has_bias /\ last'.arg.bias # None) => bias_mean' = last'.arg.bias
          /\ _weight_sd' = _weight_sd
          /\ _bias_sd' = _bias_sd
          /\ weight_sd' = weight_sd
          /\ bias_sd' = bias_sd
          /\ priors' = priors ]_vars

\* init_from_deterministic_params has run with a weight and a bias on a layer
\* with bias, after a forward call and after training changed the scales
C4_Witness ==
    /\ last.op = "init_from_deterministic_params"
    /\ has_bias /\ last.arg.bias # None
    /\ weight_mean = last.arg.weight /\ bias_mean = last.arg.bias
    /\ ncalls > 0
    /\ _weight_sd # FullLike(_weight_sd, log_expm1(100))

\* C5: init_from_deterministic_params raises no error and overwrites
\* weight_mean whenever the bias is absent in the dict or in the layer, and
\* the bias fields of a layer without bias stay absent.
C5_SilentNoOp ==
    (last.op = "init_from_deterministic_params"
        /\ (last.arg.bias = None \/ ~has_bias)) =>
        /\ exc = "None"
        /\ weight_mean = last.arg.weight
        /\ ~has_bias => bias_mean = None

\* C6: on a layer built over a base layer without bias, has_bias is false
\* and every bias field, accessor and the bias slot is absent in every
\* reachable state, and kl_divergence sums over the weight elements only.
C6_BiasAbsent ==
    ~has_bias =>
        /\ bias_mean = None /\ _bias_sd = None
        /\ bias_sd = None /\ bias_dist = None
        /\ prior_bias_mean = None /\ prior_bias_sd = None
        /\ prior_bias_dist = None
        /\ bias = None
        /\ (last.op = "kl_divergence" /\ exc = "None") =>
              kl = << SumT(KLNormal(weight_dist, prior_weight_dist)) >>

\* kl_divergence has returned on a layer without bias after forward calls
C6_Witness ==
    /\ ~has_bias
    /\ last.op = "kl_divergence" /\ exc = "None" /\ kl # None
    /\ ncalls > 0

\* the effective standard deviations are positive and at most max_sd
SdInRange ==
    /\ \A i \in DOMAIN weight_sd :
          /\ weight_sd[i] > 0
          /\ max_sd # None => weight_sd[i] <= max_sd[1]
    /\ has_bias =>
          \A i \in DOMAIN bias_sd :
              /\ bias_sd[i] > 0
              /\ max_sd # None => bias_sd[i] <= max_sd[1]

\* C7 as stated: for every raw scale and every configured max_sd, weight_sd
\* and bias_sd are in (0, max_sd], or in (0, infinity) when max_sd is unset.
C7_SdInRange_AnyMaxSd == SdInRange

\* C7, amended: for every raw scale and every max_sd that is unset or
\* positive, weight_sd and bias_sd are in (0, max_sd].
C7_SdInRange == (max_sd = None \/ max_sd[1] > 0) => SdInRange

\* softplus of the raw scale underflowed to 0 under a ceiling below the
\* floor 1e-5: the effective sd is the ceiling
C7_Witness ==
    /\ max_sd = << 5 >>
    /\ has_bias
    /\ softplus(_weight_sd[1]) = 0
    /\ weight_sd[1] = 5

\* C8: in local-reparameterization mode the stabilized variance whose square
\* root is taken is at least EPS at every output position, whatever the
\* second delegation returned there.
C8_StabilizedAtLeastEps ==
    \A t \in Threads :
        pc[t] = "l148" => \A i \in DOMAIN output_var[t] : output_var[t][i] >= EPS

\* C9 as stated: at an output position whose raw variance is >= 0, the
\* value passed to the square root equals the raw variance.
C9_NonNegativeUnchanged ==
    \A t \in Threads :
        pc[t] = "l148" =>
            \A i \in DOMAIN output_var[t] :
                RawVar(t)[i] >= 0 => output_var[t][i] = RawVar(t)[i]

\* C9, amended: at an output position whose raw variance v is >= 0, the
\* value passed to the square root is v + EPS rounded to float32, which is
\* at least EPS and, for v below 16.0, greater than v.
C9_NonNegativePlusEps ==
    \A t \in Threads :
        pc[t] = "l148" =>
            \A i \in DOMAIN output_var[t] :
                RawVar(t)[i] >= 0 =>
                    /\ output_var[t][i] = FAdd(RawVar(t)[i], EPS)
                    /\ output_var[t][i] >= EPS
                    /\ RawVar(t)[i] < 1098907648 => output_var[t][i] > RawVar(t)[i]

\* the raw variance 4.0 was stabilized to the next float32 but one above it
C9_Witness ==
    \E t \in Threads :
        /\ pc[t] = "l148"
        /\ RawVar(t)[1] = 1082130432
        /\ output_var[t][1] = 1082130434

=============================================================================
